---- MODULE Spec2Model ----
(***************************************************************************)
(* Random 2D walks (randomwalk.py): walk generation, the per-step ensemble *)
(* statistics and the playback slices of the two animations.               *)
(*                                                                         *)
(* Numbers are binary floating point values with round-to-nearest-even,    *)
(* counted in quanta: the value 1.0 is One quanta, a significand has Prec  *)
(* bits and the smallest spacing is one quantum (gradual underflow).       *)
(* numpy's float64 is the same format with a 53 bit significand.           *)
(***************************************************************************)
EXTENDS Integers, Sequences, FiniteSets

\* ------------------------------------------------------------------ bounds
Prec == 4          \* significand bits of a float
One == 16          \* quanta in 1.0
MaxSteps == 10     \* largest num_steps passed to random_walk_art
MaxWalks == 3      \* largest num_walks passed to random_walk_art
SeedBound == 4     \* randint(0, SeedBound) where the code has 1000000

\* ------------------------------------------------------- program constants
FRAME_SKIP == 4

NaN == 0 - 2147483647       \* the float that is not a number

\* PAUSE_RATIO = 0.6 as the fraction PauseNum / PauseDen
PauseNum == 3
PauseDen == 5

\* ------------------------------------------------------------ float layer
Abs(n) == IF n < 0 THEN 0 - n ELSE n
Min(a, b) == IF a <= b THEN a ELSE b
Max(a, b) == IF a >= b THEN a ELSE b

RECURSIVE Pow2(_)
Pow2(k) == IF k <= 0 THEN 1 ELSE 2 * Pow2(k - 1)

\* the spacing of the floats around a value whose integer part is q
RECURSIVE Spacing(_, _)
Spacing(q, sc) == IF q < Pow2(Prec) * sc THEN sc ELSE Spacing(q, 2 * sc)

\* the float nearest to n / d (d > 0), ties to the even significand
Round(n, d) ==
    LET a == Abs(n)
        sc == Spacing(a \div d, 1)
        D == d * sc
        m == a \div D
        r == a % D
        up == (2 * r > D) \/ (2 * r = D /\ m % 2 = 1)
        v == (IF up THEN m + 1 ELSE m) * sc
    IN IF n < 0 THEN 0 - v ELSE v

FAdd(a, b) == IF a = NaN \/ b = NaN THEN NaN ELSE Round(a + b, 1)
FSub(a, b) == IF a = NaN \/ b = NaN THEN NaN ELSE Round(a - b, 1)
FMul(a, b) == IF a = NaN \/ b = NaN THEN NaN ELSE Round(a * b, One)
\* a float divided by a count
FDivCount(a, n) == IF a = NaN \/ n = 0 THEN NaN ELSE Round(a, n)

\* ------------------------------------------------- the shared generator
\* np.random is a deterministic generator: a state, a step that hands out a
\* float in [0, 1), and a seeding that replaces the state. A full-period
\* congruential generator of 16 states stands for numpy's Mersenne Twister.
RngStates == 0 .. 15

\* one step of the generator's state
RandomState(s) == (5 * s + 3) % 16

\* the float in [0, 1) the generator hands out in state s
RandomOutput(s) == Round(s * One, 16)

\* np.random.randint(0, SeedBound) in state s
RandInt(s) == s % SeedBound

\* a seeding that mixes the seed into the state it finds
SeedStateMixed(s, seed) == (s + 7 * seed + 2) % 16

\* np.random.seed(seed): the new state depends on the seed alone
SeedState(s, seed) == (7 * seed + 2) % 16

\* cos and sin of u * 2 * pi for u in [0, 1), in thousandths, by sixteenths
\* of the circle
CosMilli == <<1000, 924, 707, 383, 0, -383, -707, -924,
              -1000, -924, -707, -383, 0, 383, 707, 924>>
Sector(u) == ((u * 16) \div One) % 16
Cos(u) == Round(CosMilli[Sector(u) + 1] * One, 1000)
Sin(u) == Round(CosMilli[((Sector(u) + 12) % 16) + 1] * One, 1000)

\* ------------------------------------------------------------ random_walk
\* the loop running num_steps times, FRAME_SKIP forgotten
WalkIterationsNoSkip(num_steps) == IF num_steps >= 0 THEN num_steps ELSE 0

\* the number of iterations of random_walk's loop
WalkIterations(num_steps) == Max(num_steps * FRAME_SKIP, 0)

\* the step size with + written for *
StepSizeSum(u, max_step) == Round(u + max_step, 1)

\* step_size = np.random.random() * max_step
StepSize(u, max_step) == FMul(u, max_step)

\* np.random.random(2) * 2 - 1, one coordinate
StartCoord(u) == FSub(FMul(u, 2 * One), One)

\* the loop of random_walk: left iterations from position (x, y) in state s
RECURSIVE WalkLoop(_, _, _, _, _, _)
WalkLoop(steps, x, y, s, left, max_step) ==
    IF left <= 0 THEN [steps |-> steps, rng |-> s]
    ELSE LET s1 == RandomState(s)
             step_size == StepSize(RandomOutput(s1), max_step)
             s2 == RandomState(s1)
             ang_x == Cos(RandomOutput(s2))
             ang_y == Sin(RandomOutput(s2))
             nx == FAdd(x, FMul(ang_x, step_size))
             ny == FAdd(y, FMul(ang_y, step_size))
         IN WalkLoop(Append(steps, <<nx, ny>>), nx, ny, s2, left - 1, max_step)

\* random_walk with the list of steps started empty
random_walk_no_start(num_steps, max_step, s) ==
    LET s1 == (5 * s + 3) % 16
        s2 == (5 * s1 + 3) % 16
        x == Round(Round(Round(s1 * One, 16) * 2 * One, One) - One, 1)
        y == Round(Round(Round(s2 * One, 16) * 2 * One, One) - One, 1)
    IN WalkLoop(<< >>, x, y, s2, num_steps * FRAME_SKIP, max_step)

\* random_walk(num_steps, max_step) run in generator state s
random_walk(num_steps, max_step, s) ==
    LET s1 == RandomState(s)
        s2 == RandomState(s1)
        x == StartCoord(RandomOutput(s1))
        y == StartCoord(RandomOutput(s2))
    IN WalkLoop(<< <<x, y>> >>, x, y, s2, WalkIterations(num_steps), max_step)

\* ---------------------------------------------------------------- np.mean
\* left-to-right float sum of a[from .. to], started from acc
RECURSIVE SumFrom(_, _, _, _)
SumFrom(a, from, to, acc) ==
    IF from > to THEN acc ELSE SumFrom(a, from + 1, to, FAdd(acc, a[from]))

\* lane j of the unrolled loop: a[j] + a[j + 8] + ... over the whole blocks
RECURSIVE Lane(_, _, _, _)
Lane(a, j, blocks, acc) ==
    IF blocks <= 0 THEN acc ELSE Lane(a, j + 8, blocks - 1, FAdd(acc, a[j + 8]))

\* np.mean is add.reduce over the flattened array, then a division by the
\* number of elements; every addition rounds.
\* numpy's sum of a float array: a plain loop below 8 elements, 8 lanes
\* combined as a tree and then the remainder from 8 elements on
ArraySum(a) ==
    LET n == Len(a)
        blocks == n \div 8
        r(j) == Lane(a, j, blocks - 1, a[j])
        tree == FAdd(FAdd(FAdd(r(1), r(2)), FAdd(r(3), r(4))),
                     FAdd(FAdd(r(5), r(6)), FAdd(r(7), r(8))))
    IN IF n < 8 THEN SumFrom(a, 1, n, 0)
       ELSE SumFrom(a, 8 * blocks + 1, n, tree)

\* the mean dividing by one more than the number of elements
MeanOffByOne(a) == Round(ArraySum(a), Len(a) + 1)

\* np.mean of a list of floats; NaN for the empty list
Mean(a) == IF Len(a) = 0 THEN NaN ELSE FDivCount(ArraySum(a), Len(a))

\* ---------------------------------------------- random_walk_stats_animation
\* the range taken from the parameters: range(num_steps * FRAME_SKIP + 1)
StatsRangeFromSteps(ws, num_steps) == num_steps * FRAME_SKIP + 1

\* range(len(walks[0])); -1 stands for the IndexError of walks[0]
StatsRange(ws, num_steps) == IF ws = <<>> THEN -1 ELSE Len(ws[1])

\* some walk[i] with i beyond the walk's end raises IndexError
ShortWalk(ws, n) == \E w \in 1 .. Len(ws) : Len(ws[w]) < n

\* expectations[i] (i counted from 1)
Expectation(ws, i) ==
    << Mean([w \in 1 .. Len(ws) |-> ws[w][i][1]]),
       Mean([w \in 1 .. Len(ws) |-> ws[w][i][2]]) >>

\* (expectations[i] - walk[i]) ** 2 for every walk, as numpy lays the
\* two-dimensional array out: x then y of walk 0, x then y of walk 1, ...
SquaredDeviations(ws, e, i) ==
    [k \in 1 .. 2 * Len(ws) |->
        LET w == (k + 1) \div 2
            c == IF k % 2 = 1 THEN 1 ELSE 2
            d == FSub(e[c], ws[w][i][c])
        IN FMul(d, d)]

\* variances[i]
Variance(ws, e, i) == Mean(SquaredDeviations(ws, e, i))

\* ----------------------------------------------------------------- playback
\* int(num_steps * PAUSE_RATIO); int() truncates towards zero
PauseThreshold(num_steps) ==
    IF num_steps >= 0 THEN (num_steps * PauseNum) \div PauseDen
    ELSE 0 - ((0 - num_steps) * PauseNum) \div PauseDen

\* update_lines without the pause
SliceBoundNoPause(f, threshold) == f * FRAME_SKIP

\* the slice bound of update_lines for logical frame f
SliceBound(f, threshold) ==
    IF f < threshold THEN f * FRAME_SKIP ELSE threshold * FRAME_SKIP

\* the slice bound of update_graph for logical frame f
GraphBound(f, threshold) ==
    IF f < threshold THEN f * FRAME_SKIP ELSE threshold * FRAME_SKIP

\* the axis limits computed for every frame
ComputesLimitsAlways(f) == f >= 0

\* update_graph's guard of the axis limits
ComputesLimits(f) == f > 1

\* the number of elements of a[:bound] for a of length len
SliceLen(len, bound) ==
    IF bound >= 0 THEN Min(bound, len) ELSE Max(len + bound, 0)

\* ---------------------------------------------------------------- the state
VARIABLES
    num_steps, max_step_size, num_walks,  \* the parameters of random_walk_art
    rng,              \* the state of the shared generator np.random
    seed,             \* the seed drawn by random_walk_art, -1 before
    draws,            \* generator draws made since the seeding
    walks,            \* the ensemble
    pc,               \* "start", "generate", "walk_anim", "stats",
                      \* "stats_anim", "done", "failed"
    error, errorLine, \* the exception that ended the run and its line
    pause_threshold,
    frame,            \* the next logical frame FuncAnimation will deliver
    lineFrame, lineBound,    \* last frame given to update_lines, its bound
    expectations, variances, \* the statistics series
    graphFrame, graphBound,  \* last frame given to update_graph, its bound
    limitsPrefix,     \* samples under min/max in that call, -1 if skipped
    prev              \* the outcome of the previous run of the process

vars == << num_steps, max_step_size, num_walks, rng, seed, draws, walks, pc,
           error, errorLine, pause_threshold, frame, lineFrame, lineBound,
           expectations, variances, graphFrame, graphBound, limitsPrefix,
           prev >>

params == << num_steps, max_step_size, num_walks >>
playback == << pause_threshold, frame, lineFrame, lineBound, graphFrame,
               graphBound, limitsPrefix >>
stats == << expectations, variances >>

MaxStepSizes == {0 - (One \div 4), 0, One \div 4}
NoRun == [valid |-> FALSE, seed |-> -1, params |-> <<0, 0, 0>>, walks |-> <<>>,
          expectations |-> <<>>, variances |-> <<>>, pc |-> "start"]

\* the state of a run about to start, but for parameters and generator
Fresh ==
    /\ seed = -1 /\ draws = 0 /\ walks = <<>>
    /\ pc = "start" /\ error = "none" /\ errorLine = 0
    /\ pause_threshold = 0 /\ frame = 0
    /\ lineFrame = -1 /\ lineBound = -1
    /\ expectations = <<>> /\ variances = <<>>
    /\ graphFrame = -1 /\ graphBound = -1 /\ limitsPrefix = -1

Init ==
    /\ num_steps \in -1 .. MaxSteps
    /\ max_step_size \in MaxStepSizes
    /\ num_walks \in -1 .. MaxWalks
    /\ rng \in RngStates
    /\ prev = NoRun
    /\ Fresh

\* --------------------------------------------------------------- the steps
\* random_walk_art, lines 128-130: draw the seed, seed the generator
SeedRun ==
    /\ pc = "start"
    /\ LET s1 == RandomState(rng)
       IN /\ seed' = RandInt(s1)
          /\ rng' = SeedState(s1, RandInt(s1))
    /\ draws' = 0
    /\ pc' = "generate"
    /\ UNCHANGED << params, walks, error, errorLine, playback, stats, prev >>

\* random_walk_art, line 131: one more random_walk of the comprehension
GenerateWalk ==
    /\ pc = "generate"
    /\ Len(walks) < num_walks
    /\ LET r == random_walk(num_steps, max_step_size, rng)
       IN /\ walks' = Append(walks, r.steps)
          /\ rng' = r.rng
          /\ draws' = draws + 2 + 2 * WalkIterations(num_steps)
    /\ UNCHANGED << params, seed, pc, error, errorLine, playback, stats, prev >>

\* random_walk_animation, lines 51-60: walk[1] of line 55 needs two positions
RandomWalkAnimation ==
    /\ pc = "generate"
    /\ Len(walks) >= num_walks
    /\ pause_threshold' = PauseThreshold(num_steps)
    /\ IF ShortWalk(walks, 2)
       THEN pc' = "failed" /\ error' = "IndexError" /\ errorLine' = 55
       ELSE pc' = "walk_anim" /\ UNCHANGED << error, errorLine >>
    /\ frame' = 0 /\ lineFrame' = -1 /\ lineBound' = -1
    /\ UNCHANGED << params, rng, seed, draws, walks, stats, graphFrame,
                    graphBound, limitsPrefix, prev >>

\* update_lines called by FuncAnimation with the next of frames 0 .. num_steps-1
UpdateLines ==
    /\ pc = "walk_anim"
    /\ frame < num_steps
    /\ lineFrame' = frame
    /\ lineBound' = SliceBound(frame, pause_threshold)
    /\ frame' = frame + 1
    /\ UNCHANGED << params, rng, seed, draws, walks, pc, error, errorLine,
                    pause_threshold, stats, graphFrame, graphBound,
                    limitsPrefix, prev >>

\* random_walk_animation, lines 62-66: the frames are delivered, save
SaveWalkAnimation ==
    /\ pc = "walk_anim"
    /\ frame >= num_steps
    /\ pc' = "stats"
    /\ UNCHANGED << params, rng, seed, draws, walks, error, errorLine,
                    playback, stats, prev >>

\* random_walk_stats_animation, lines 70-95
RandomWalkStatsAnimation ==
    /\ pc = "stats"
    /\ pause_threshold' = PauseThreshold(num_steps)
    /\ frame' = 0 /\ lineFrame' = -1 /\ lineBound' = -1
    /\ graphFrame' = -1 /\ graphBound' = -1 /\ limitsPrefix' = -1
    /\ LET n == StatsRange(walks, num_steps)
           e == [i \in 1 .. n |-> Expectation(walks, i)]
           v == [i \in 1 .. n |-> Variance(walks, e[i], i)]
       IN IF n = -1 \/ ShortWalk(walks, n)
          THEN /\ pc' = "failed" /\ error' = "IndexError" /\ errorLine' = 77
               /\ UNCHANGED stats
          ELSE IF ShortWalk(walks, 2)
          THEN /\ pc' = "failed" /\ error' = "IndexError" /\ errorLine' = 86
               /\ UNCHANGED stats
          ELSE IF n <= 0
          THEN /\ pc' = "failed" /\ error' = "IndexError" /\ errorLine' = 93
               /\ UNCHANGED stats
          ELSE /\ pc' = "stats_anim"
               /\ expectations' = e /\ variances' = v
               /\ UNCHANGED << error, errorLine >>
    /\ UNCHANGED << params, rng, seed, draws, walks, prev >>

\* update_graph called by FuncAnimation with the next of frames 0 .. num_steps-1
UpdateGraph ==
    /\ pc = "stats_anim"
    /\ frame < num_steps
    /\ lineFrame' = frame
    /\ lineBound' = SliceBound(frame, pause_threshold)
    /\ graphFrame' = frame
    /\ graphBound' = GraphBound(frame, pause_threshold)
    /\ frame' = frame + 1
    /\ LET prefix == SliceLen(Len(expectations), GraphBound(frame, pause_threshold))
       IN IF ComputesLimits(frame)
          THEN /\ limitsPrefix' = prefix
               /\ IF prefix = 0
                  THEN /\ pc' = "failed" /\ error' = "ValueError"
                       /\ errorLine' = IF frame < pause_threshold THEN 108 ELSE 115
                  ELSE UNCHANGED << pc, error, errorLine >>
          ELSE /\ limitsPrefix' = -1
               /\ UNCHANGED << pc, error, errorLine >>
    /\ UNCHANGED << params, rng, seed, draws, walks, pause_threshold, stats,
                    prev >>

\* random_walk_stats_animation, lines 123-124: the frames are delivered, save
SaveStatsAnimation ==
    /\ pc = "stats_anim"
    /\ frame >= num_steps
    /\ pc' = "done"
    /\ UNCHANGED << params, rng, seed, draws, walks, error, errorLine,
                    playback, stats, prev >>

Next ==
    \/ SeedRun
    \/ GenerateWalk
    \/ RandomWalkAnimation
    \/ UpdateLines
    \/ SaveWalkAnimation
    \/ RandomWalkStatsAnimation
    \/ UpdateGraph
    \/ SaveStatsAnimation

Spec == Init /\ [][Next]_vars

\* ------------------------------------------ a second run of random_walk_art
ReplaySteps == {1, 2}
ReplayStepSizes == {One \div 4}
ReplayWalks == {1, 2}

InitReplay ==
    /\ num_steps \in ReplaySteps
    /\ max_step_size \in ReplayStepSizes
    /\ num_walks \in ReplayWalks
    /\ rng \in RngStates
    /\ prev = NoRun
    /\ Fresh

\* the run is over; random_walk_art is called again in a new process, whose
\* generator starts in any state
Restart ==
    /\ pc \in {"done", "failed"}
    /\ prev' = [valid |-> TRUE, seed |-> seed, params |-> params,
                walks |-> walks, expectations |-> expectations,
                variances |-> variances, pc |-> pc]
    /\ num_steps' \in ReplaySteps
    /\ max_step_size' \in ReplayStepSizes
    /\ num_walks' \in ReplayWalks
    /\ rng' \in RngStates
    /\ seed' = -1 /\ draws' = 0 /\ walks' = <<>>
    /\ pc' = "start" /\ error' = "none" /\ errorLine' = 0
    /\ pause_threshold' = 0 /\ frame' = 0
    /\ lineFrame' = -1 /\ lineBound' = -1
    /\ expectations' = <<>> /\ variances' = <<>>
    /\ graphFrame' = -1 /\ graphBound' = -1 /\ limitsPrefix' = -1

NextReplay == Next \/ Restart

SpecReplay == InitReplay /\ [][NextReplay]_vars

\* ------------------- random_walk_stats_animation called on a given ensemble
FixturePoints == { <<0, 0>>, <<14, -6>>, <<22, 14>> }
FixtureWalks == [1 .. 2 -> FixturePoints]

InitStats ==
    /\ num_walks \in 0 .. MaxWalks
    /\ walks \in [1 .. num_walks -> FixtureWalks]
    /\ num_steps = 1
    /\ max_step_size = 0
    /\ rng \in {0}
    /\ prev = NoRun
    /\ seed = -1 /\ draws = 0
    /\ pc = "stats" /\ error = "none" /\ errorLine = 0
    /\ pause_threshold = 0 /\ frame = 0
    /\ lineFrame = -1 /\ lineBound = -1
    /\ expectations = <<>> /\ variances = <<>>
    /\ graphFrame = -1 /\ graphBound = -1 /\ limitsPrefix = -1

NextStats ==
    \/ RandomWalkStatsAnimation
    \/ UpdateGraph
    \/ SaveStatsAnimation

SpecStats == InitStats /\ [][NextStats]_vars

\* ------------------------------------------------------------ properties
TrajectoryLength == num_steps * FRAME_SKIP + 1
ValidParams == num_steps >= 1 /\ num_walks >= 1 /\ max_step_size >= 0
StatsComputed == pc \in {"stats_anim", "done"}
\* random_walk_stats_animation has been entered
StatsReceived == StatsComputed \/ (pc = "failed" /\ errorLine >= 77)
Generated == pc \in {"walk_anim", "stats", "stats_anim", "done", "failed"}

\* the average over the walks of dx^2 + dy^2 at step i
MeanSquaredDistance(ws, e, i) ==
    Mean([w \in 1 .. Len(ws) |->
            LET dx == FSub(e[1], ws[w][i][1])
                dy == FSub(e[2], ws[w][i][2])
            IN FAdd(FMul(dx, dx), FMul(dy, dy))])

\* C1: at every step the variance is the average over the walks of the
\* squared Euclidean distance between the walk's position and the mean
C1_VarianceIsMeanSquaredDistance ==
    StatsComputed =>
        \A i \in 1 .. Len(variances) :
            variances[i] = MeanSquaredDistance(walks, expectations[i], i)

\* C2: a run with invalid parameters makes no draw for a walk, produces no
\* trajectory and is rejected with InvalidParameter
C2_InvalidRejected ==
    ~ValidParams =>
        /\ draws = 0
        /\ walks = <<>>
        /\ pc # "start" => (pc = "failed" /\ error = "InvalidParameter")

\* floor(num_steps * PAUSE_RATIO)
FloorPause == (num_steps * 3) \div 5

C3_Value ==
    /\ lineFrame >= 0 => lineBound = Min(lineFrame, FloorPause) * FRAME_SKIP
    /\ graphFrame >= 0 => graphBound = Min(graphFrame, FloorPause) * FRAME_SKIP
    /\ (num_steps = 10 /\ lineFrame = 5) => lineBound = 20
    /\ (num_steps = 10 /\ lineFrame \in {6, 9}) => lineBound = 24
    /\ (num_steps = 10 /\ graphFrame = 5) => graphBound = 20
    /\ (num_steps = 10 /\ graphFrame \in {6, 9}) => graphBound = 24

C3_Monotone ==
    /\ (lineFrame >= 0 /\ lineFrame' > lineFrame) => lineBound' >= lineBound
    /\ (graphFrame >= 0 /\ graphFrame' > graphFrame) => graphBound' >= graphBound

\* C3: the slice bound is frame * FRAME_SKIP below the pause threshold,
\* pause_threshold * FRAME_SKIP from it on, and never decreases as the
\* frames advance
C3_ResolveFrame == [](C3_Value) /\ [][C3_Monotone]_vars

C3_Witness ==
    /\ num_steps = 10 /\ pc = "stats_anim"
    /\ lineFrame = 9 /\ lineBound = 24 /\ graphFrame = 9 /\ graphBound = 24

\* C4: for num_steps >= 1 the slice bound of every frame is an index of the
\* trajectories and of the statistics series
C4_IndexInRange ==
    num_steps >= 1 =>
        /\ lineFrame >= 0 =>
              /\ 0 <= lineBound /\ lineBound < TrajectoryLength
              /\ \A w \in 1 .. Len(walks) : lineBound <= Len(walks[w]) - 1
        /\ graphFrame >= 0 =>
              /\ 0 <= graphBound /\ graphBound < TrajectoryLength
              /\ graphBound <= Len(expectations) - 1
              /\ graphBound <= Len(variances) - 1

C4_Witness ==
    /\ num_steps >= 5 /\ num_walks >= 1 /\ pc = "stats_anim"
    /\ graphFrame = num_steps - 1
    /\ graphBound = FloorPause * FRAME_SKIP /\ lineBound = graphBound

RECURSIVE Advance(_, _)
Advance(s, k) ==
    IF k <= 0 THEN s
    ELSE IF k = 1 THEN RandomState(s)
    ELSE LET half == Advance(s, k \div 2)
         IN IF half \in Int THEN Advance(half, k - k \div 2) ELSE half

DrawState(sd, k) == Advance(SeedState(0, sd), k)

\* the float of the k-th draw after np.random.seed(sd)
Draw(sd, k) == RandomOutput(DrawState(sd, k))

\* draws one walk takes
DrawsPerWalk == 2 + 2 * num_steps * FRAME_SKIP

\* C6: for valid parameters every trajectory has num_steps * FRAME_SKIP + 1
\* positions, the first being the start point drawn for the walk, and the
\* mean and variance series have that length
C6_Lengths ==
    ValidParams =>
        /\ \A w \in 1 .. Len(walks) :
              /\ Len(walks[w]) = TrajectoryLength
              /\ walks[w][1] =
                    << StartCoord(Draw(seed, (w - 1) * DrawsPerWalk + 1)),
                       StartCoord(Draw(seed, (w - 1) * DrawsPerWalk + 2)) >>
        /\ StatsComputed =>
              /\ Len(expectations) = TrajectoryLength
              /\ Len(variances) = TrajectoryLength

C6_Witness ==
    /\ ValidParams /\ num_walks >= 2 /\ num_steps >= 2 /\ pc = "done"
    /\ Len(walks) = num_walks /\ Len(variances) = Len(walks[2])

IdenticalWalks ==
    /\ Len(walks) >= 1
    /\ \A w \in 1 .. Len(walks) : walks[w] = walks[1]

MeanIsWalk ==
    \A i \in 1 .. Len(expectations) :
        expectations[i] = walks[1][i] /\ variances[i] = 0

\* C7 as claimed: for any number of identical walks the mean is the walk and
\* the variance is 0
C7_IdenticalWalks == (StatsComputed /\ IdenticalWalks) => MeanIsWalk

\* C7 as amended: for one walk, or two identical walks, the mean at every
\* step is the walk's position and the variance is 0
C7_OneOrTwoIdenticalWalks ==
    (StatsComputed /\ IdenticalWalks /\ Len(walks) <= 2) => MeanIsWalk

C7_Witness ==
    /\ StatsComputed /\ Len(walks) = 2 /\ walks[1] = walks[2]
    /\ walks[1][1] # <<0, 0>> /\ expectations[1] = walks[1][1]

\* the walk the draws from index base + 1 on make, by the order of the draws:
\* start x, start y, then per step the magnitude and the angle
RECURSIVE WalkOfDraws(_, _, _, _)
WalkOfDraws(sd, base, max_step, j) ==
    IF j <= 0
    THEN << << StartCoord(Draw(sd, base + 1)), StartCoord(Draw(sd, base + 2)) >> >>
    ELSE LET before == WalkOfDraws(sd, base, max_step, j - 1)
             last == before[Len(before)]
             size == FMul(Draw(sd, base + 2 * j + 1), max_step)
             angle == Draw(sd, base + 2 * j + 2)
         IN Append(before, << FAdd(last[1], FMul(Cos(angle), size)),
                              FAdd(last[2], FMul(Sin(angle), size)) >>)

SameAsPrevious ==
    (prev.valid /\ prev.seed = seed /\ prev.params = params) =>
        /\ prev.walks = walks
        /\ prev.expectations = expectations
        /\ prev.variances = variances
        /\ prev.pc = pc

C9_ZeroStepConstant ==
    (max_step_size = 0 /\ num_steps >= 1) =>
        \A w \in 1 .. Len(walks) :
            \A j \in 1 .. Len(walks[w]) : walks[w][j] = walks[w][1]

C9_Witness ==
    /\ max_step_size = 0 /\ num_steps >= 2 /\ Len(walks) >= 2
    /\ Len(walks[1]) = TrajectoryLength /\ walks[1] # walks[2]

\* C10: update_graph takes min/max of the mean prefix only for a frame
\* greater than 1, and then over at least two samples
C10_LimitsPrefix ==
    (num_steps >= 1 /\ graphFrame >= 0 /\ limitsPrefix # -1) =>
        /\ graphFrame > 1
        /\ limitsPrefix >= 2

C10_Witness ==
    /\ pc = "stats_anim" /\ graphFrame > 1
    /\ graphFrame >= pause_threshold
    /\ limitsPrefix = pause_threshold * FRAME_SKIP /\ limitsPrefix >= 2

====
